---------------------------- MODULE Spec2Model ----------------------------
(***************************************************************************)
(* A model of the two Ansible modules of this repository:                  *)
(*                                                                         *)
(*   library/ec2_vpc_eigw.py   the egress-only internet gateway reconciler *)
(*   library/boto3_generic.py  the generic boto3 operation invoker         *)
(*                                                                         *)
(* The cloud provider (the boto3 client) and the Ansible host are the      *)
(* environment: every provider call answers with one of the responses the  *)
(* provider can give, chosen nondeterministically.                         *)
(***************************************************************************)
EXTENDS Naturals, Sequences, FiniteSets, TLC

(***************************************************************************)
(* Bounds of the model.                                                    *)
(***************************************************************************)
\* The provider holds at most this many gateways.
MaxGateways == 2

\* Consecutive runs of the reconciler against the same provider.
MaxRuns == 2

(***************************************************************************)
(* Values.                                                                 *)
(***************************************************************************)
\* Python's None, where an identifier is expected.
None == "None"

\* The parents (VPCs) known to the provider.
VpcIds == {"vpc-1", "vpc-2"}

\* Attachment states the provider reports; the code tells apart
\* 'attached', 'attaching' and anything else.
AttachStates == {"attached", "attaching", "detached"}

\* The error code by which the provider signals a validated dry run.
DryRunOperation == "DryRunOperation"

\* Any other provider error code.
OtherErrors == {"UnauthorizedOperation"}

\* Identifiers the provider issues: unique, never reused.
GwId(n) == "eigw-" \o ToString(n)

\* A gateway as describe_egress_only_internet_gateways reports it.
Gateway(id, vpc, st) ==
    [EgressOnlyInternetGatewayId |-> id,
     Attachments |-> << [VpcId |-> vpc, State |-> st] >>]

VARIABLES
    gateways,    \* provider: the list of gateways, in the order it lists them
    listed,      \* describe_eigws: response['EgressOnlyInternetGateways']
    issued,      \* provider: how many identifiers it has issued
    vpc_id,      \* module.params['vpc_id']
    state,       \* module.params['state']
    check_mode,  \* module.check_mode
    pc,          \* where the run is: "describe", "reconcile", "poll", "done"
    eigw_id,     \* main: what describe_eigws returned
    eigw,        \* create_eigw: the gateway of the create response
    retries,     \* create_eigw: poll attempts left
    pause,       \* create_eigw: the next sleep
    result,      \* main: the value bound to result
    exit,        \* how the run ended: "none", "exit_json", "fail_json", "TypeError"
    trace,       \* the sleeps and provider calls of this run, in order
    runs,        \* runs started so far
    prev,        \* how the run before this one ended, when the host repeats a task
    service,         \* boto3_generic: module.params['service']
    operation_name,  \* boto3_generic: module.params['operation_name']
    arguments,       \* boto3_generic: module.params['arguments']
    args,            \* boto3_generic: main's args
    ipc,             \* boto3_generic: "validate", "call", "done"
    iresult,         \* boto3_generic: what the host was handed
    iexit,           \* boto3_generic: "none", "exit_json", "fail_json", "AttributeError"
    invoked,         \* boto3_generic: the SDK operations invoked, in order
    given,           \* camel_to_snake: the name it is given
    snake            \* camel_to_snake: what it returned, applied again to its result

eigw_vars == << gateways, listed, issued, vpc_id, state, check_mode, pc, eigw_id, eigw,
                retries, pause, result, exit, trace, runs, prev >>

invoker_vars == << service, operation_name, arguments, args, ipc, iresult,
                   iexit, invoked >>

case_vars == << given, snake >>

vars == << eigw_vars, invoker_vars, case_vars >>

(***************************************************************************)
(* The record of a run: sleeps and provider calls.                         *)
(***************************************************************************)
ListOp == "describe_egress_only_internet_gateways"
CreateOp == "create_egress_only_internet_gateway"
DeleteOp == "delete_egress_only_internet_gateway"

\* The provider calls of a run, each with its keyword arguments and what it
\* answered: code is "ok" or the error code of the ClientError raised.

\* client.describe_egress_only_internet_gateways()
ListCall(code) == [op |-> ListOp, code |-> code]

\* client.describe_egress_only_internet_gateways(EgressOnlyInternetGatewayIds=id);
\* st is the attachment state the response carried ("-" on an error).
DescribeCall(id, code, st) ==
    [op |-> ListOp, EgressOnlyInternetGatewayIds |-> id, code |-> code, State |-> st]

\* client.create_egress_only_internet_gateway(DryRun=dry, VpcId=vpc); new and
\* st are the identifier and the attachment state of the gateway in the
\* response (None and "-" on an error).
CreateCall(dry, vpc, code, new, st) ==
    [op |-> CreateOp, DryRun |-> dry, VpcId |-> vpc, code |-> code,
     EgressOnlyInternetGatewayId |-> new, State |-> st]

\* client.delete_egress_only_internet_gateway(DryRun=dry,
\* EgressOnlyInternetGatewayId=id); rc is response['ReturnCode'] (FALSE on an
\* error).
DeleteCall(dry, id, code, rc) ==
    [op |-> DeleteOp, DryRun |-> dry, EgressOnlyInternetGatewayId |-> id,
     code |-> code, ReturnCode |-> rc]

\* sleep(pause)
Sleep(secs) == [op |-> "sleep", secs |-> secs]

(***************************************************************************)
(* Values bound to result and handed to the host.                          *)
(***************************************************************************)
Unbound == [type |-> "unbound"]

\* A function that falls off its end returns None.
PyNone == [type |-> "NoneType"]

\* {'changed': c, 'gateway_id': g}
ChangedGateway(c, g) == [type |-> "dict", changed |-> c, gateway_id |-> g]

\* {'changed': c}
ChangedOnly(c) == [type |-> "dict", changed |-> c]

\* A slip: the failure carries the message but not the provider's error.
FailClientError_NoPayload(code) == [type |-> "dict", msg |-> "ClientError"]

\* fail_json(msg=err.message, exception=..., **camel_dict_to_snake_dict(err.response))
FailClientError(code) == [type |-> "dict", msg |-> "ClientError", error |-> [code |-> code]]

\* A slip: the two format arguments change places.
FailBadState_Swapped(vpc, st) ==
    [type |-> "dict", msg |-> "Bad Attachment State", vpc_id |-> st, state |-> vpc]

\* fail_json(msg='Unable to create and attach ... VPCId: {0}. Bad Attachment State: {1}')
FailBadState(vpc, st) ==
    [type |-> "dict", msg |-> "Bad Attachment State", vpc_id |-> vpc, state |-> st]

\* module.exit_json(**result): a dict is handed to the host; None is not a
\* mapping and the call raises TypeError.
ExitJson(r) == IF r.type = "dict" THEN "exit_json" ELSE "TypeError"

(***************************************************************************)
(* describe_eigws: the loop returns in its first iteration, on either      *)
(* branch of the if.                                                       *)
(***************************************************************************)
\* A slip: the parent is not compared.
Matches_AnyVpc(gw, vpc) ==
    gw.Attachments[1].State \in {"attached", "attaching"}

Matches(gw, vpc) ==
    /\ gw.Attachments[1].VpcId = vpc
    /\ gw.Attachments[1].State \in {"attached", "attaching"}

describe_eigws(list, vpc) ==
    IF Len(list) = 0
    THEN None
    ELSE LET gw == list[1]
         IN  IF Matches(gw, vpc)
             THEN gw.EgressOnlyInternetGatewayId
             ELSE None

(***************************************************************************)
(* Initial states: any provider state within the bounds, any parameters.   *)
(***************************************************************************)
GatewayLists ==
    UNION { { [i \in 1..n |-> Gateway(GwId(i), v[i], s[i])] :
                v \in [1..n -> VpcIds], s \in [1..n -> AttachStates] } :
            n \in 0..MaxGateways }

StartRun ==
    /\ vpc_id' \in VpcIds
    /\ state' \in {"present", "absent"}
    /\ check_mode' \in BOOLEAN
    /\ pc' = "describe"
    /\ listed' = << >>
    /\ eigw_id' = None
    /\ eigw' = Gateway(None, None, "-")
    /\ retries' = 0
    /\ pause' = 0
    /\ result' = Unbound
    /\ exit' = "none"
    /\ trace' = << >>

\* There is no run before the first.
NoPrev == [exit |-> "none", result |-> Unbound]

\* camel_to_snake is not applied on its own.
CaseOff ==
    /\ given = << >>
    /\ snake = << >>

\* boto3_generic is another module: it does not run in a run of ec2_vpc_eigw.
InvokerOff ==
    /\ service = None
    /\ operation_name = << >>
    /\ arguments = << >>
    /\ args = << >>
    /\ ipc = "off"
    /\ iresult = Unbound
    /\ iexit = "none"
    /\ invoked = << >>

Init ==
    /\ gateways \in GatewayLists
    /\ issued = Len(gateways)
    /\ vpc_id \in VpcIds
    /\ state \in {"present", "absent"}
    /\ check_mode \in BOOLEAN
    /\ pc = "describe"
    /\ listed = << >>
    /\ eigw_id = None
    /\ eigw = Gateway(None, None, "-")
    /\ retries = 0
    /\ pause = 0
    /\ result = Unbound
    /\ exit = "none"
    /\ trace = << >>
    /\ runs = 1
    /\ prev = NoPrev
    /\ InvokerOff
    /\ CaseOff


(***************************************************************************)
(* How a run ends.                                                         *)
(***************************************************************************)
\* main, line 210: module.exit_json(**result)
Exit(r) ==
    /\ result' = r
    /\ exit' = ExitJson(r)
    /\ pc' = "done"

\* module.fail_json(...) halts the run.
Fail(kwargs) ==
    /\ result' = kwargs
    /\ exit' = "fail_json"
    /\ pc' = "done"

(***************************************************************************)
(* main, line 198: eigw_id = describe_eigws(module, client, vpc_id)        *)
(***************************************************************************)
DescribeEigws ==
    /\ pc = "describe"
    /\ \/ \* the list call answers
          /\ trace' = Append(trace, ListCall("ok"))
          /\ listed' = gateways
          /\ eigw_id' = describe_eigws(listed', vpc_id)
          /\ pc' = "reconcile"
          /\ UNCHANGED << result, exit >>
       \/ \* the list call raises ClientError
          \E code \in OtherErrors :
              /\ trace' = Append(trace, ListCall(code))
              /\ Fail(FailClientError(code))
              /\ UNCHANGED << listed, eigw_id >>
    /\ UNCHANGED << gateways, issued, vpc_id, state, check_mode, eigw, retries,
                    pause, runs >>
    /\ UNCHANGED << prev, invoker_vars, case_vars >>

(***************************************************************************)
(* main, lines 200-210 when neither branch is taken.                       *)
(***************************************************************************)
\* A slip: the no-op branch reports a change.
NoChangeResult_Changed(id) == ChangedGateway(TRUE, id)

\* result = dict(changed=False, gateway_id=eigw_id)
NoChangeResult(id) == ChangedGateway(FALSE, id)

NoChange ==
    /\ pc = "reconcile"
    /\ ~(state = "present" /\ eigw_id = None)
    /\ ~(state = "absent" /\ eigw_id # None)
    /\ Exit(NoChangeResult(eigw_id))
    /\ UNCHANGED << gateways, listed, issued, vpc_id, state, check_mode, eigw_id, eigw,
                    retries, pause, trace, runs >>
    /\ UNCHANGED << prev, invoker_vars, case_vars >>

(***************************************************************************)
(* create_eigw                                                             *)
(*                                                                         *)
(* The functions catch ClientError themselves and fail_json halts the run, *)
(* so no ClientError reaches the AWSRetry.backoff decorator: a provider    *)
(* call is made once.                                                      *)
(***************************************************************************)
\* retries = 5
PollRetries == 5

\* pause = 1
InitialPause == 1

\* A slip: the pause grows by one instead of doubling.
NextPause_Linear(p) == p + 1

\* pause = pause * 2
NextPause(p) == p * 2

\* A slip: every state but attached is polled (else in place of elif).
CreateAttaching_NotAttached(st) == st # "attached"

\* elif state == 'attaching'
CreateAttaching(st) == st = "attaching"

\* A slip: the poll takes any state but attaching for attached.
PollAttached_NotAttaching(st) == st # "attaching"

\* if check_resp[...]['Attachments'][0]['State'] == 'attached'
PollAttached(st) == st = "attached"

\* The except branch of create_eigw and of delete_eigw on DryRunOperation.
DryRunResult == ChangedGateway(TRUE, None)

\* A slip: the success record loses the identifier.
CreatedResult_NoId(gw) == ChangedGateway(TRUE, None)

\* The return of create_eigw once the gateway is attached.
CreatedResult(gw) == ChangedGateway(TRUE, gw.EgressOnlyInternetGatewayId)

\* A slip: the calls do not carry the host's check-mode.
DryRunFlag_Off(cm) == FALSE

\* DryRun=module.check_mode
DryRunFlag(cm) == cm

\* list with x inserted at position pos
InsertAt(list, pos, x) ==
    [i \in 1..(Len(list) + 1) |->
        IF i < pos THEN list[i] ELSE IF i = pos THEN x ELSE list[i - 1]]

\* What the provider can raise for a mutating call: with DryRun set it
\* validates and raises (DryRunOperation when the call would have
\* succeeded); without, it may raise any other error.
MutationErrors(dry) == IF dry THEN {DryRunOperation} \cup OtherErrors ELSE OtherErrors

CreateEigw ==
    /\ pc = "reconcile"
    /\ state = "present" /\ eigw_id = None
    /\ \/ \* the create call raises ClientError
          \E code \in MutationErrors(DryRunFlag(check_mode)) :
              /\ trace' = Append(trace,
                     CreateCall(DryRunFlag(check_mode), vpc_id, code, None, "-"))
              /\ IF code = DryRunOperation
                 THEN Exit(DryRunResult)
                 ELSE Fail(FailClientError(code))
              /\ UNCHANGED << gateways, issued, eigw, retries, pause >>
       \/ \* the provider creates the gateway
          \E st \in AttachStates, pos \in 1..(Len(gateways) + 1) :
              LET gw == Gateway(GwId(issued + 1), vpc_id, st)
              IN  /\ ~DryRunFlag(check_mode)
                  /\ Len(gateways) < MaxGateways
                  /\ gateways' = InsertAt(gateways, pos, gw)
                  /\ issued' = issued + 1
                  /\ eigw' = gw
                  /\ trace' = Append(trace,
                         CreateCall(DryRunFlag(check_mode), vpc_id, "ok",
                                    gw.EgressOnlyInternetGatewayId, st))
                  /\ IF st = "attached"
                     THEN /\ Exit(CreatedResult(gw))
                          /\ UNCHANGED << retries, pause >>
                     ELSE IF CreateAttaching(st)
                     THEN /\ retries' = PollRetries
                          /\ pause' = InitialPause
                          /\ pc' = "poll"
                          /\ UNCHANGED << result, exit >>
                     ELSE /\ Fail(FailBadState(vpc_id, st))
                          /\ UNCHANGED << retries, pause >>
    /\ UNCHANGED << listed, vpc_id, state, check_mode, eigw_id, runs >>
    /\ UNCHANGED << prev, invoker_vars, case_vars >>

\* The gateway's attachment as the provider reports it now.
SetState(list, id, st) ==
    [i \in 1..Len(list) |->
        IF list[i].EgressOnlyInternetGatewayId = id
        THEN Gateway(id, list[i].Attachments[1].VpcId, st)
        ELSE list[i]]

\* One iteration of the while loop: sleep, describe by identifier, compare.
PollEigw ==
    /\ pc = "poll"
    /\ retries > 0
    /\ retries' = retries - 1
    /\ LET id == eigw.EgressOnlyInternetGatewayId
       IN  \/ \* the describe call answers; the attachment may have moved on
              \E st \in AttachStates :
                  /\ trace' = trace \o << Sleep(pause), DescribeCall(id, "ok", st) >>
                  /\ gateways' = SetState(gateways, id, st)
                  /\ IF PollAttached(st)
                     THEN /\ Exit(CreatedResult(eigw))
                          /\ UNCHANGED pause
                     ELSE /\ pause' = NextPause(pause)
                          /\ UNCHANGED << result, exit, pc >>
           \/ \* the describe call raises ClientError
              \E code \in OtherErrors :
                  /\ trace' = trace \o << Sleep(pause), DescribeCall(id, code, "-") >>
                  /\ Fail(FailClientError(code))
                  /\ UNCHANGED << gateways, pause >>
    /\ UNCHANGED << listed, issued, vpc_id, state, check_mode, eigw_id, eigw, runs >>
    /\ UNCHANGED << prev, invoker_vars, case_vars >>

\* The while loop ends with retries = 0: create_eigw falls off its end and
\* returns None, which main hands to exit_json.
PollExhausted ==
    /\ pc = "poll"
    /\ retries = 0
    /\ Exit(PyNone)
    /\ UNCHANGED << gateways, listed, issued, vpc_id, state, check_mode, eigw_id, eigw,
                    retries, pause, trace, runs >>
    /\ UNCHANGED << prev, invoker_vars, case_vars >>

(***************************************************************************)
(* delete_eigw                                                             *)
(***************************************************************************)
\* A slip: the delete reports no change.
DeletedResult_Unchanged(rc) == ChangedOnly(FALSE)

\* return {'changed': response['ReturnCode']}
DeletedResult(rc) == ChangedOnly(rc)

\* list without the gateway id
Remove(list, id) ==
    SelectSeq(list, LAMBDA g : g.EgressOnlyInternetGatewayId # id)

DeleteEigw ==
    /\ pc = "reconcile"
    /\ state = "absent" /\ eigw_id # None
    /\ \/ \* the delete call raises ClientError
          \E code \in MutationErrors(DryRunFlag(check_mode)) :
              /\ trace' = Append(trace,
                     DeleteCall(DryRunFlag(check_mode), eigw_id, code, FALSE))
              /\ IF code = DryRunOperation
                 THEN Exit(DryRunResult)
                 ELSE Fail(FailClientError(code))
              /\ UNCHANGED gateways
       \/ \* the provider answers with ReturnCode: true, the gateway is gone
          \E rc \in BOOLEAN :
              /\ ~DryRunFlag(check_mode)
              /\ trace' = Append(trace,
                     DeleteCall(DryRunFlag(check_mode), eigw_id, "ok", rc))
              /\ gateways' = IF rc THEN Remove(gateways, eigw_id) ELSE gateways
              /\ Exit(DeletedResult(rc))
    /\ UNCHANGED << listed, issued, vpc_id, state, check_mode, eigw_id, eigw,
                    retries, pause, runs >>
    /\ UNCHANGED << prev, invoker_vars, case_vars >>

(***************************************************************************)
(* The host runs the module again, against the provider as it is now.      *)
(***************************************************************************)
NewRun ==
    /\ pc = "done"
    /\ runs < MaxRuns
    /\ runs' = runs + 1
    /\ StartRun
    /\ UNCHANGED << gateways, issued >>
    /\ UNCHANGED << prev, invoker_vars, case_vars >>

Next ==
    \/ DescribeEigws
    \/ NoChange
    \/ CreateEigw
    \/ PollEigw
    \/ PollExhausted
    \/ DeleteEigw
    \/ NewRun

Spec == Init /\ [][Next]_vars

\* Every call returns and every sleep ends: a run that can take a step does.
FairSpec == Spec /\ WF_vars(Next)

(***************************************************************************)
(* boto3_generic: the generic operation invoker.                           *)
(*                                                                         *)
(* Names that camel_to_snake reads are sequences of one-character strings. *)
(***************************************************************************)
UpperChars ==
    << "A", "B", "C", "D", "E", "F", "G", "H", "I", "J", "K", "L", "M",
       "N", "O", "P", "Q", "R", "S", "T", "U", "V", "W", "X", "Y", "Z" >>

LowerChars ==
    << "a", "b", "c", "d", "e", "f", "g", "h", "i", "j", "k", "l", "m",
       "n", "o", "p", "q", "r", "s", "t", "u", "v", "w", "x", "y", "z" >>

DigitChars ==
    << "0", "1", "2", "3", "4", "5", "6", "7", "8", "9" >>

Range(f) == { f[i] : i \in DOMAIN f }

\* [A-Z]
IsUpper(c) == c \in Range(UpperChars)

\* [a-z]
IsLower(c) == c \in Range(LowerChars)

\* [a-z0-9]
IsLowerOrDigit(c) == c \in Range(LowerChars) \cup Range(DigitChars)

\* str.lower(), one character
LowerChar(c) ==
    IF IsUpper(c)
    THEN LowerChars[CHOOSE i \in DOMAIN UpperChars : UpperChars[i] = c]
    ELSE c

\* A slip: the result is not lowercased.
Lower_Keep(name) == name

\* str.lower()
Lower(name) == [i \in DOMAIN name |-> LowerChar(name[i])]

\* The last index of the run of [a-z] that starts at i.
RECURSIVE LowerRunEnd(_, _)
LowerRunEnd(name, i) ==
    IF i < Len(name) /\ IsLower(name[i + 1])
    THEN LowerRunEnd(name, i + 1)
    ELSE i

\* first_cap_re.sub(r'\1_\2', name) with first_cap_re = '(.)([A-Z][a-z]+)':
\* matches are found left to right and do not overlap; the text from i on.
RECURSIVE FirstCapSub(_, _)
FirstCapSub(name, i) ==
    IF i > Len(name)
    THEN << >>
    ELSE IF /\ i + 2 <= Len(name)
            /\ IsUpper(name[i + 1])
            /\ IsLower(name[i + 2])
         THEN LET e == LowerRunEnd(name, i + 2)
              IN  << name[i], "_" >> \o SubSeq(name, i + 1, e)
                      \o FirstCapSub(name, e + 1)
         ELSE << name[i] >> \o FirstCapSub(name, i + 1)

\* all_cap_re.sub(r'\1_\2', s1) with all_cap_re = '([a-z0-9])([A-Z])'
RECURSIVE AllCapSub(_, _)
AllCapSub(name, i) ==
    IF i > Len(name)
    THEN << >>
    ELSE IF /\ i + 1 <= Len(name)
            /\ IsLowerOrDigit(name[i])
            /\ IsUpper(name[i + 1])
         THEN << name[i], "_", name[i + 1] >> \o AllCapSub(name, i + 2)
         ELSE << name[i] >> \o AllCapSub(name, i + 1)

camel_to_snake(name) == Lower(AllCapSub(FirstCapSub(name, 1), 1))

(***************************************************************************)
(* The SDK: botocore's service models, and the methods of a client.        *)
(***************************************************************************)
OpDescribeVpcs ==
    << "D", "e", "s", "c", "r", "i", "b", "e", "V", "p", "c", "s" >>

OpDeleteVpc ==
    << "D", "e", "l", "e", "t", "e", "V", "p", "c" >>

OpGetObject ==
    << "G", "e", "t", "O", "b", "j", "e", "c", "t" >>

op_describe_vpcs ==
    << "d", "e", "s", "c", "r", "i", "b", "e", "_", "v", "p", "c", "s" >>

op_delete_vpc ==
    << "d", "e", "l", "e", "t", "e", "_", "v", "p", "c" >>

op_get_object ==
    << "g", "e", "t", "_", "o", "b", "j", "e", "c", "t" >>

OpNoSuchOperation ==
    << "N", "o", "S", "u", "c", "h", "O", "p", "e", "r", "a", "t", "i",
       "o", "n" >>

\* session.get_available_services()
AvailableServices == {"ec2", "s3"}

\* service_model.operation_names: the API's own (PascalCase) names
OperationNames(svc) ==
    IF svc = "ec2" THEN {OpDescribeVpcs, OpDeleteVpc}
    ELSE IF svc = "s3" THEN {OpGetObject}
    ELSE {}

\* op_model.input_shape.members
ShapeMembers(op) ==
    IF op = OpDescribeVpcs THEN {"Filters", "VpcIds", "DryRun"}
    ELSE IF op = OpDeleteVpc THEN {"VpcId", "DryRun"}
    ELSE IF op = OpGetObject THEN {"Bucket", "Key", "VersionId"}
    ELSE {}

\* op_model.input_shape.required_members
RequiredMembers(op) ==
    IF op = OpDeleteVpc THEN {"VpcId"}
    ELSE IF op = OpGetObject THEN {"Bucket", "Key"}
    ELSE {}

\* The client's method for an operation, as the SDK publishes it.
SdkMethod(op) ==
    IF op = OpDescribeVpcs THEN op_describe_vpcs
    ELSE IF op = OpDeleteVpc THEN op_delete_vpc
    ELSE IF op = OpGetObject THEN op_get_object
    ELSE << >>

\* The attributes getattr(conn, name) finds on a client of the service.
ClientMethods(svc) == { SdkMethod(op) : op \in OperationNames(svc) }

(***************************************************************************)
(* What the host can hand to the invoker.                                  *)
(***************************************************************************)
ServiceInputs == AvailableServices \cup {"nosuch"}

OperationInputs ==
    {OpDescribeVpcs, OpDeleteVpc, OpGetObject,
     op_describe_vpcs, op_delete_vpc, op_get_object, OpNoSuchOperation}

ArgumentKeys == {"VpcId", "Bucket", "Key", "Filters", "DryRun", "Bogus"}

\* The value the caller gives a key: a boolean d for DryRun, a mapping for
\* Filters, anything else is opaque.
ArgumentValue(k, d) ==
    IF k = "DryRun" THEN d
    ELSE IF k = "Filters" THEN "filters-dict"
    ELSE "value"

ArgumentMaps ==
    UNION { { [k \in keys |-> ArgumentValue(k, d)] : d \in BOOLEAN } :
            keys \in SUBSET ArgumentKeys }

\* dict with key k set to v
Put(d, k, v) == [x \in DOMAIN d \cup {k} |-> IF x = k THEN v ELSE d[x]]

\* dict without key k (dict.pop)
Pop(d, k) == [x \in DOMAIN d \ {k} |-> d[x]]

\* ansible_dict_to_boto3_filter_list
FilterList(v) == "filters-list"

(***************************************************************************)
(* validate_params: either the arguments to invoke with, or the fail_json  *)
(* that halted the run.                                                    *)
(***************************************************************************)
Valid(a) == [ok |-> TRUE, args |-> a]

Invalid(kwargs) == [ok |-> FALSE, fail |-> kwargs]

FailService(svc) ==
    [type |-> "dict", msg |-> "Invalid Service Name", service |-> svc]

FailOperation(op, svc) ==
    [type |-> "dict", msg |-> "Invalid Operation Name", operation |-> op,
     service |-> svc]

FailArguments(keys, op) ==
    [type |-> "dict", msg |-> "Invalid Argument(s)", keys |-> keys,
     operation |-> op]

FailMissing(keys, op) ==
    [type |-> "dict", msg |-> "Missing Required Argument(s)", keys |-> keys,
     operation |-> op]

\* A slip: DryRun stays in the arguments whatever the schema declares.
DropDryRun_Keep(a, members) == a

\* if 'DryRun' not in shape_members: args.pop('DryRun')
DropDryRun(a, members) == IF "DryRun" \notin members THEN Pop(a, "DryRun") ELSE a

\* A slip: the operation name is not checked.
KnownOperation_Always(op, svc) == TRUE

\* if operation_name not in op_names
KnownOperation(op, svc) == op \in OperationNames(svc)

validate_params(svc, op, a) ==
    IF svc \notin AvailableServices
    THEN Invalid(FailService(svc))
    ELSE IF ~KnownOperation(op, svc)
    THEN Invalid(FailOperation(op, svc))
    ELSE LET shape_members == ShapeMembers(op)
             required_members == RequiredMembers(op)
             a1 == DropDryRun(a, shape_members)
             bad_params == DOMAIN a1 \ shape_members
             missing_params == required_members \ DOMAIN a1
         IN  IF bad_params # {}
             THEN Invalid(FailArguments(bad_params, op))
             ELSE IF missing_params # {}
             THEN Invalid(FailMissing(missing_params, op))
             ELSE Valid(a1)

(***************************************************************************)
(* main of boto3_generic                                                   *)
(***************************************************************************)
\* A slip: a DryRun the caller supplied is kept (setdefault).
PrepareArgs_KeepCaller(a, cm) ==
    LET a1 == IF "DryRun" \in DOMAIN a THEN a ELSE Put(a, "DryRun", cm)
    IN  IF "Filters" \in DOMAIN a1
        THEN Put(a1, "Filters", FilterList(a1["Filters"]))
        ELSE a1

\* args['DryRun'] = module.check_mode
\* if args.get('Filters'): args['Filters'] = ansible_dict_to_boto3_filter_list(...)
PrepareArgs(a, cm) ==
    LET a1 == Put(a, "DryRun", cm)
    IN  IF "Filters" \in DOMAIN a1
        THEN Put(a1, "Filters", FilterList(a1["Filters"]))
        ELSE a1

\* main, lines 219-242: the arguments are prepared and validated.
InvokerValidate ==
    /\ ipc = "validate"
    /\ LET v == validate_params(service, operation_name,
                                PrepareArgs(arguments, check_mode))
       IN  IF v.ok
           THEN /\ args' = v.args
                /\ ipc' = "call"
                /\ UNCHANGED << iresult, iexit >>
           ELSE /\ iresult' = v.fail
                /\ iexit' = "fail_json"
                /\ ipc' = "done"
                /\ UNCHANGED args
    /\ UNCHANGED << service, operation_name, arguments, invoked >>
    /\ UNCHANGED << eigw_vars, case_vars >>

\* call_boto3_operation's return on a ClientError.
ClientErrorReturn(code) ==
    IF code = DryRunOperation
    THEN ChangedOnly(TRUE)
    ELSE [type |-> "dict", error |-> [code |-> code]]

\* result = dict(changed=False); result['response'] = call_boto3_operation(...)
InvokerResult(response) ==
    [type |-> "dict", changed |-> FALSE, response |-> response]

\* What the provider can raise for the call: DryRunOperation only for a
\* request that carries DryRun=true.
InvokeErrors(a) ==
    IF "DryRun" \in DOMAIN a /\ a["DryRun"]
    THEN {DryRunOperation} \cup OtherErrors
    ELSE OtherErrors

\* camel_dict_to_snake_dict(boto3_call(**args))
ResponsePayload == [type |-> "dict", payload |-> "response"]

\* An SDK operation invoked: the client method, its keyword arguments, and
\* "ok" or the error code of the ClientError it raised.
Invocation(method, a, code) == [method |-> method, args |-> a, code |-> code]

\* main, lines 244-246: the operation is invoked and the run exits.
InvokerCall ==
    /\ ipc = "call"
    /\ LET method == camel_to_snake(operation_name)
       IN  IF method \notin ClientMethods(service)
           THEN \* getattr raises AttributeError, which nothing catches
                /\ iexit' = "AttributeError"
                /\ UNCHANGED << iresult, invoked >>
           ELSE /\ iexit' = "exit_json"
                /\ \/ \* the operation answers; a request that carries
                      \* DryRun=true never does
                      /\ ~("DryRun" \in DOMAIN args /\ args["DryRun"])
                      /\ invoked' = Append(invoked, Invocation(method, args, "ok"))
                      /\ iresult' = InvokerResult(ResponsePayload)
                   \/ \* the operation raises ClientError
                      \E code \in InvokeErrors(args) :
                          /\ invoked' = Append(invoked, Invocation(method, args, code))
                          /\ iresult' = InvokerResult(ClientErrorReturn(code))
    /\ ipc' = "done"
    /\ UNCHANGED << service, operation_name, arguments, args >>
    /\ UNCHANGED << eigw_vars, case_vars >>

\* ec2_vpc_eigw is another module: it does not run in a run of boto3_generic.
EigwOff ==
    /\ gateways = << >>
    /\ listed = << >>
    /\ issued = 0
    /\ vpc_id = None
    /\ state = "present"
    /\ pc = "off"
    /\ eigw_id = None
    /\ eigw = Gateway(None, None, "-")
    /\ retries = 0
    /\ pause = 0
    /\ result = Unbound
    /\ exit = "none"
    /\ trace = << >>
    /\ runs = 0
    /\ prev = NoPrev

InvokerInit ==
    /\ service \in ServiceInputs
    /\ operation_name \in OperationInputs
    /\ arguments \in ArgumentMaps
    /\ check_mode \in BOOLEAN
    /\ args = << >>
    /\ ipc = "validate"
    /\ iresult = Unbound
    /\ iexit = "none"
    /\ invoked = << >>
    /\ EigwOff
    /\ CaseOff

InvokerNext ==
    \/ InvokerValidate
    \/ InvokerCall

InvokerSpec == InvokerInit /\ [][InvokerNext]_vars

(***************************************************************************)
(* Properties of the gateway reconciler.                                   *)
(***************************************************************************)
IsSleep(c) == c.op = "sleep"
IsList(c) == c.op = ListOp /\ "EgressOnlyInternetGatewayIds" \notin DOMAIN c
IsDescribe(c) == c.op = ListOp /\ "EgressOnlyInternetGatewayIds" \in DOMAIN c
IsCreate(c) == c.op = CreateOp
IsDelete(c) == c.op = DeleteOp

Sleeps == SelectSeq(trace, IsSleep)
Describes == SelectSeq(trace, IsDescribe)
Creates == SelectSeq(trace, IsCreate)
Deletes == SelectSeq(trace, IsDelete)

\* The list call of this run answered, so describe_eigws returned.
LookedUp == Len(trace) >= 1 /\ IsList(trace[1]) /\ trace[1].code = "ok"

\* The gateways of a list that match the caller's vpc_id.
MatchingIn(list) == { i \in 1..Len(list) : Matches(list[i], vpc_id) }

\* C1: describe_eigws returns the identifier of a gateway of the list whose
\* first attachment has VpcId = vpc_id and State attached or attaching,
\* wherever it stands in the list, and None only when no entry matches.
C1_DescribeFindsMatch ==
    LookedUp =>
        /\ (eigw_id = None) <=> (MatchingIn(listed) = {})
        /\ eigw_id # None =>
               \E i \in MatchingIn(listed) :
                   listed[i].EgressOnlyInternetGatewayId = eigw_id

\* C2: when the declared state matches what the lookup found (present and
\* a gateway found, absent and none found) the run makes the list call
\* only (no create, no delete, no sleep, no re-describe) and exits with
\* changed=false and the gateway_id the lookup found, which is None or the
\* identifier of a listed gateway attached or attaching to vpc_id.
C2_NoOp ==
    (/\ pc = "done"
     /\ LookedUp
     /\ \/ state = "present" /\ eigw_id # None
        \/ state = "absent" /\ eigw_id = None)
    => /\ trace = << ListCall("ok") >>
       /\ exit = "exit_json"
       /\ result = ChangedGateway(FALSE, eigw_id)
       /\ gateways = listed
       /\ eigw_id # None =>
              \E i \in MatchingIn(gateways) :
                  gateways[i].EgressOnlyInternetGatewayId = eigw_id

C2_Witness ==
    /\ pc = "done" /\ LookedUp /\ state = "present" /\ eigw_id # None
    /\ exit = "exit_json" /\ result.changed = FALSE

\* C3: state=present, nothing found, check-mode off and a create response
\* in state attached: the run made exactly one create call, scoped to
\* vpc_id, slept and re-described never, and exits with changed=true and
\* the identifier of the create response.
C3_CreateAttached ==
    (/\ pc = "done"
     /\ LookedUp /\ state = "present" /\ eigw_id = None /\ ~check_mode
     /\ Len(trace) >= 2 /\ IsCreate(trace[2])
     /\ trace[2].code = "ok" /\ trace[2].State = "attached")
    => /\ Len(trace) = 2
       /\ trace[2].VpcId = vpc_id
       /\ exit = "exit_json"
       /\ result = ChangedGateway(TRUE, trace[2].EgressOnlyInternetGatewayId)
       /\ result.gateway_id # None
       /\ \E i \in 1..Len(gateways) :
              gateways[i] = Gateway(result.gateway_id, vpc_id, "attached")

C3_Witness ==
    /\ pc = "done" /\ state = "present" /\ ~check_mode
    /\ Len(trace) = 2 /\ IsCreate(trace[2]) /\ trace[2].State = "attached"
    /\ exit = "exit_json" /\ result.changed = TRUE
    /\ Len(listed) > 0

\* C4: state=absent and a gateway found: the run made exactly one delete
\* call, for the identifier found, and when the provider accepted it (no
\* error, ReturnCode true) the run exits with changed=true.
C4_Delete ==
    (/\ pc = "done"
     /\ LookedUp /\ state = "absent" /\ eigw_id # None)
    => /\ Len(Deletes) = 1
       /\ Deletes[1].EgressOnlyInternetGatewayId = eigw_id
       /\ Len(Creates) = 0
       /\ (Deletes[1].code = "ok" /\ Deletes[1].ReturnCode)
              => (exit = "exit_json" /\ result.changed = TRUE)

C4_Witness ==
    /\ pc = "done" /\ state = "absent" /\ eigw_id # None
    /\ Len(Deletes) = 1 /\ Deletes[1].code = "ok" /\ Deletes[1].ReturnCode
    /\ exit = "exit_json" /\ result.changed = TRUE
    /\ Len(gateways) < Len(listed)

\* The create response of this run carried state attaching.
CreatedAttaching ==
    /\ Len(Creates) = 1
    /\ Creates[1].code = "ok"
    /\ Creates[1].State = "attaching"

SawAttached ==
    \E i \in 1..Len(Describes) :
        Describes[i].code = "ok" /\ Describes[i].State = "attached"

\* C5: after a create response in state attaching, create_eigw returns
\* {changed: true, gateway_id: the created identifier} if and only if one
\* of the at most 5 re-describe calls for that identifier observed
\* attached; after 5 re-describe calls that all answered and none
\* observed attached it returns None, not a dict, and has not failed.
C5_PollOutcome ==
    (pc = "done" /\ CreatedAttaching)
    => /\ Len(Describes) <= 5
       /\ \A i \in 1..Len(Describes) :
              Describes[i].EgressOnlyInternetGatewayIds =
                  Creates[1].EgressOnlyInternetGatewayId
       /\ (exit = "exit_json") <=> SawAttached
       /\ SawAttached =>
              result = ChangedGateway(TRUE, Creates[1].EgressOnlyInternetGatewayId)
       /\ (Len(Describes) = 5 /\ ~SawAttached /\ Describes[5].code = "ok")
              => (result = PyNone /\ exit # "fail_json")

C5_Witness ==
    /\ pc = "done" /\ CreatedAttaching
    /\ Len(Describes) = 3 /\ SawAttached
    /\ exit = "exit_json" /\ result.changed = TRUE

C5_WitnessExhausted ==
    /\ pc = "done" /\ CreatedAttaching
    /\ Len(Describes) = 5 /\ ~SawAttached /\ result = PyNone

\* The sleeps and re-describe calls of a run alternate, sleep first; the
\* k-th sleep lasts 2^(k-1); there are at most 5 of each; nothing follows a
\* re-describe that observed attached.
C6_Schedule ==
    /\ Len(Sleeps) <= 5
    /\ Len(Describes) <= 5
    /\ Len(Sleeps) = Len(Describes)
    /\ \A k \in 1..Len(Sleeps) : Sleeps[k].secs = 2^(k - 1)
    /\ \A i \in 1..Len(trace) :
           /\ IsSleep(trace[i]) => (i < Len(trace) /\ IsDescribe(trace[i + 1]))
           /\ IsDescribe(trace[i]) =>
                  /\ i > 1 /\ IsSleep(trace[i - 1])
                  /\ (trace[i].code = "ok" /\ trace[i].State = "attached")
                         => i = Len(trace)
    /\ Len(Describes) > 0 => CreatedAttaching

\* C6: in the attaching branch every re-describe is preceded by exactly one
\* sleep, the sleeps are a prefix of 1, 2, 4, 8, 16, at most 5 sleeps and 5
\* re-describes are made, the loop stops at the first re-describe that
\* observes attached, and the loop always terminates.
C6_PollSchedule ==
    /\ []C6_Schedule
    /\ (pc = "poll") ~> (pc = "done")

C6_Witness ==
    /\ pc = "done" /\ Len(Sleeps) = 5
    /\ Sleeps[5].secs = 16 /\ Describes[5].State = "attached"

\* C7: in check-mode every create and delete call carries DryRun=true; when
\* the provider answers DryRunOperation the run exits with changed=true and
\* gateway_id None, that call is the last thing the run did (no sleep, no
\* re-describe, no other call), and the provider's gateways are as listed.
C7_DryRun ==
    /\ check_mode =>
           \A i \in 1..Len(trace) :
               (IsCreate(trace[i]) \/ IsDelete(trace[i])) => trace[i].DryRun
    /\ \A i \in 1..Len(trace) :
           (check_mode /\ ~IsSleep(trace[i]) /\ trace[i].code = DryRunOperation) =>
               /\ i = Len(trace)
               /\ pc = "done"
               /\ exit = "exit_json"
               /\ result = ChangedGateway(TRUE, None)
               /\ Len(Sleeps) = 0 /\ Len(Describes) = 0
               /\ gateways = listed

C7_Witness ==
    /\ check_mode /\ pc = "done" /\ state = "absent"
    /\ Len(Deletes) = 1 /\ Deletes[1].DryRun /\ Deletes[1].code = DryRunOperation
    /\ exit = "exit_json" /\ result.changed = TRUE /\ result.gateway_id = None

\* C8: every run ends either in a success result that holds a boolean
\* changed, or in a failure with a message; in no other way.
C8_ExitContract ==
    pc = "done" =>
        \/ /\ exit = "exit_json"
           /\ "changed" \in DOMAIN result
           /\ result.changed \in BOOLEAN
        \/ /\ exit = "fail_json"
           /\ "msg" \in DOMAIN result

(***************************************************************************)
(* Properties of the generic operation invoker.                            *)
(***************************************************************************)
\* The run has been through validate_params.
Validated == ipc \in {"call", "done"}

RejectedAs(msg) == iexit = "fail_json" /\ iresult.msg = msg

\* C9: for every operation of the service's catalog, operation_name in
\* PascalCase form and in snake_case form both pass the operation-name
\* check of validation, and both lead to the same SDK operation.
C9_BothFormsAccepted ==
    \A op \in OperationNames(service) :
        (Validated /\ operation_name \in {op, SdkMethod(op)})
        => /\ ~RejectedAs("Invalid Operation Name")
           /\ \A i \in 1..Len(invoked) : invoked[i].method = SdkMethod(op)

\* C10: when the invoked operation raises a provider error with code
\* DryRunOperation, the host is handed a success whose changed is true and
\* which carries no response payload.
C10_DryRunSuccess ==
    (/\ ipc = "done"
     /\ Len(invoked) = 1
     /\ invoked[1].code = DryRunOperation)
    => /\ iexit = "exit_json"
       /\ iresult.changed = TRUE
       /\ "response" \notin DOMAIN iresult

\* C11: when the invoked operation raises a provider error whose code is not
\* DryRunOperation, the run ends in a failure that carries the provider's
\* error payload, never in a success result.
C11_ProviderFailure ==
    (/\ ipc = "done"
     /\ Len(invoked) = 1
     /\ invoked[1].code \in OtherErrors)
    => /\ iexit = "fail_json"
       /\ "error" \in DOMAIN iresult
       /\ iresult.error.code = invoked[1].code

\* The arguments main hands to validate_params, and the schema they are
\* checked against (there is one once the service and the operation are known).
ValidateInput == PrepareArgs(arguments, check_mode)

SchemaKnown ==
    /\ service \in AvailableServices
    /\ operation_name \in OperationNames(service)

Undeclared(a) == DOMAIN a \ ShapeMembers(operation_name)

Absent(a) == RequiredMembers(operation_name) \ DOMAIN a

\* What validation did with the map a: the three outcomes of the claim.
ValidationOutcome(a, returned) ==
    IF Undeclared(a) # {}
    THEN /\ RejectedAs("Invalid Argument(s)")
         /\ iresult.keys = Undeclared(a)
    ELSE IF Absent(a) # {}
    THEN /\ RejectedAs("Missing Required Argument(s)")
         /\ iresult.keys = Absent(a)
    ELSE /\ iexit # "fail_json"
         /\ args = returned

\* C12, as stated: a map with a key the schema does not declare fails with
\* an invalid-arguments error naming exactly the undeclared keys; otherwise
\* one that lacks a required key fails with a missing-arguments error naming
\* exactly the absent keys; otherwise validation returns the map.
C12_AsStated ==
    (Validated /\ SchemaKnown) => ValidationOutcome(ValidateInput, ValidateInput)

\* The map without the DryRun key when the schema does not declare it.
WithoutUndeclaredDryRun(a) ==
    IF "DryRun" \in ShapeMembers(operation_name)
    THEN a
    ELSE [k \in DOMAIN a \ {"DryRun"} |-> a[k]]

\* C12, amended: the same three outcomes hold of the map once the DryRun
\* key is taken out of it when the schema does not declare DryRun.
C12_ArgumentValidation ==
    (Validated /\ SchemaKnown) =>
        ValidationOutcome(WithoutUndeclaredDryRun(ValidateInput),
                          WithoutUndeclaredDryRun(ValidateInput))

C12_Witness ==
    /\ Validated /\ SchemaKnown
    /\ "DryRun" \notin ShapeMembers(operation_name)
    /\ RejectedAs("Invalid Argument(s)")
    /\ iresult.keys = {"VpcId", "Bogus"}

C12_WitnessMissing ==
    /\ Validated /\ SchemaKnown
    /\ RejectedAs("Missing Required Argument(s)")
    /\ iresult.keys = {"Bucket", "Key"}

C12_WitnessReturned ==
    /\ ipc = "call" /\ SchemaKnown
    /\ "DryRun" \notin ShapeMembers(operation_name)
    /\ args = [Bucket |-> "value", Key |-> "value"]

(***************************************************************************)
(* Further properties of the gateway reconciler.                           *)
(***************************************************************************)
\* The create response of this run carried a state the code does not model.
CreatedBadState ==
    /\ Len(Creates) = 1
    /\ Creates[1].code = "ok"
    /\ Creates[1].State \notin {"attached", "attaching"}

\* C13: after a create response whose attachment state is neither attached
\* nor attaching, create_eigw has not polled (no sleep, no re-describe) and
\* the run has halted with a failure whose message carries the vpc_id and
\* the state observed; it has not handed the host a success.
C13_BadAttachmentState ==
    CreatedBadState
    => /\ pc = "done"
       /\ Len(Sleeps) = 0 /\ Len(Describes) = 0
       /\ IsCreate(trace[Len(trace)])
       /\ exit = "fail_json"
       /\ result.msg = "Bad Attachment State"
       /\ result.vpc_id = vpc_id
       /\ result.state = Creates[1].State

C13_Witness ==
    /\ CreatedBadState /\ Creates[1].State = "detached"
    /\ exit = "fail_json" /\ result.state = "detached"

(***************************************************************************)
(* camel_to_snake on its own: applied to a name, then to its own result.   *)
(***************************************************************************)
\* Names are at most this long.
MaxNameLen == 4

\* Letters, digits and underscore: two capitals, two small letters, a digit.
NameChars == {"A", "B", "a", "b", "1", "_"}

Names == UNION { [1..n -> NameChars] : n \in 0..MaxNameLen }

CaseInit ==
    /\ given \in Names
    /\ snake = << >>
    /\ check_mode = FALSE
    /\ EigwOff
    /\ InvokerOff

\* camel_to_snake(name), then camel_to_snake of what it returned
Transform ==
    /\ Len(snake) < 2
    /\ snake' = Append(snake,
           camel_to_snake(IF snake = << >> THEN given ELSE snake[Len(snake)]))
    /\ UNCHANGED << given, eigw_vars, invoker_vars >>

CaseNext == Transform

CaseSpec == CaseInit /\ [][CaseNext]_vars

HasCapital(n) == \E i \in 1..Len(n) : IsUpper(n[i])

\* C14: camel_to_snake(camel_to_snake(x)) = camel_to_snake(x) for every x
\* over letters, digits and underscore, and camel_to_snake(x) = x for every
\* x without a capital letter.
C14_Idempotent ==
    /\ Len(snake) = 2 => snake[2] = snake[1]
    /\ (Len(snake) >= 1 /\ ~HasCapital(given)) => snake[1] = given

\* "ABa1" becomes "a_ba1", which a second application leaves alone.
C14_Witness ==
    /\ given = << "A", "B", "a", "1" >>
    /\ Len(snake) = 2
    /\ snake[1] = << "a", "_", "b", "a", "1" >>
    /\ snake[2] = snake[1]

(***************************************************************************)
(* Provider errors, repeated runs, call order and delete target of the     *)
(* gateway reconciler.                                                     *)
(***************************************************************************)
\* The event is a provider call that raised an error other than DryRunOperation.
RaisedError(c) == ~IsSleep(c) /\ c.code \notin {"ok", DryRunOperation}

\* C15: a provider error other than DryRunOperation, raised by the list
\* call, the create call, the delete call or a re-describe of the poll, is
\* the last thing the run did (no retry, no poll, no other call after it)
\* and the run has halted with a failure that carries the provider's error,
\* not with a success.
C15_ErrorsAreFatal ==
    \A i \in 1..Len(trace) :
        RaisedError(trace[i])
        => /\ i = Len(trace)
           /\ pc = "done"
           /\ exit = "fail_json"
           /\ "msg" \in DOMAIN result
           /\ "error" \in DOMAIN result
           /\ result.error.code = trace[i].code

\* An error raised by the third re-describe of a poll.
C15_Witness ==
    /\ pc = "done" /\ exit = "fail_json"
    /\ Len(Describes) = 3 /\ RaisedError(Describes[3])
    /\ result.error.code = Describes[3].code

C15_WitnessDelete ==
    /\ pc = "done" /\ exit = "fail_json"
    /\ Len(Deletes) = 1 /\ RaisedError(Deletes[1])

(***************************************************************************)
(* Further properties of the generic operation invoker.                    *)
(***************************************************************************)
\* The DryRun key of a map that passed validation: the check-mode flag when
\* the schema declares DryRun, no key at all when it does not.
DryRunAsDeclared(a) ==
    IF "DryRun" \in ShapeMembers(operation_name)
    THEN "DryRun" \in DOMAIN a /\ a["DryRun"] = check_mode
    ELSE "DryRun" \notin DOMAIN a

\* C16: DryRun is set to the host's check-mode flag whatever the caller
\* supplied; when the schema does not declare it, it is removed before the
\* unknown-key check, so no invalid-arguments failure names it and the
\* operation is invoked without it; when the schema declares it, the
\* operation is invoked with DryRun = check-mode.
C16_DryRunArgument ==
    /\ RejectedAs("Invalid Argument(s)") => "DryRun" \notin iresult.keys
    /\ (Validated /\ iexit # "fail_json") => DryRunAsDeclared(args)
    /\ \A i \in 1..Len(invoked) : DryRunAsDeclared(invoked[i].args)

\* The caller supplied the opposite of check-mode and the schema declares DryRun.
C16_Witness ==
    /\ Len(invoked) = 1
    /\ "DryRun" \in DOMAIN arguments /\ arguments["DryRun"] # check_mode
    /\ invoked[1].args["DryRun"] = check_mode

\* The caller supplied DryRun and the schema does not declare it.
C16_WitnessDropped ==
    /\ Len(invoked) = 1
    /\ "DryRun" \in DOMAIN arguments
    /\ "DryRun" \notin DOMAIN invoked[1].args

(***************************************************************************)
(* The host repeats the task: main runs again with the parameters of the   *)
(* run before, against the provider as that run left it.                   *)
(***************************************************************************)
RunAgain ==
    /\ pc = "done"
    /\ runs < MaxRuns
    /\ runs' = runs + 1
    /\ prev' = [exit |-> exit, result |-> result]
    /\ pc' = "describe"
    /\ listed' = << >>
    /\ eigw_id' = None
    /\ eigw' = Gateway(None, None, "-")
    /\ retries' = 0
    /\ pause' = 0
    /\ result' = Unbound
    /\ exit' = "none"
    /\ trace' = << >>
    /\ UNCHANGED << gateways, issued, vpc_id, state, check_mode >>
    /\ UNCHANGED << invoker_vars, case_vars >>

ConvergeNext ==
    \/ DescribeEigws
    \/ NoChange
    \/ CreateEigw
    \/ PollEigw
    \/ PollExhausted
    \/ DeleteEigw
    \/ RunAgain

ConvergeSpec == Init /\ [][ConvergeNext]_vars

\* The run before this one handed the host a result through exit_json.
PrevSucceeded == prev.exit = "exit_json" /\ prev.result.type = "dict"

\* The second run has ended and its list call was answered.
SecondRunEnded == runs = 2 /\ pc = "done" /\ LookedUp /\ ~check_mode

\* C17: after a run with state=present that ended in success with check-mode
\* off, a second run with the same parameters issues no create call and exits
\* with changed=false and the identifier of the gateway attached to vpc_id;
\* after a run with state=absent that deleted a gateway, a second run issues
\* no delete call and exits with changed=false.
C17_Convergence ==
    /\ (SecondRunEnded /\ PrevSucceeded /\ state = "present")
       => /\ Len(Creates) = 0
          /\ exit = "exit_json"
          /\ result.changed = FALSE
          /\ \E i \in 1..Len(gateways) :
                 /\ Matches(gateways[i], vpc_id)
                 /\ result.gateway_id = gateways[i].EgressOnlyInternetGatewayId
    /\ (SecondRunEnded /\ PrevSucceeded /\ state = "absent"
           /\ prev.result.changed = TRUE)
       => /\ Len(Deletes) = 0
          /\ exit = "exit_json"
          /\ result.changed = FALSE

\* The second run issues a create call again: its lookup looked at a gateway
\* of another parent, listed before the one the first run created.
C17_SecondCreate ==
    /\ SecondRunEnded /\ PrevSucceeded /\ state = "present"
    /\ prev.result.changed = TRUE
    /\ Len(Creates) = 1 /\ Creates[1].VpcId = vpc_id
    /\ MatchingIn(gateways) # {}
    /\ ~Matches(listed[1], vpc_id)

\* The second run finds what the first one created.
C17_Converged ==
    /\ SecondRunEnded /\ PrevSucceeded /\ state = "present"
    /\ prev.result.changed = TRUE
    /\ Len(Creates) = 0 /\ exit = "exit_json" /\ result.changed = FALSE

(***************************************************************************)
(* Order and target of the reconciler's provider calls.                    *)
(***************************************************************************)
\* The provider calls of the run, sleeps left out.
Calls == SelectSeq(trace, LAMBDA c : ~IsSleep(c))

\* C18: the first provider call of a run is the list call and there is no
\* other list call; past the lookup the list call has been issued; a run
\* issues at most one mutating call, a create or a delete; every re-describe
\* call comes after a create call that answered with state attaching.
C18_CallOrdering ==
    /\ pc # "describe" => Len(Calls) >= 1
    /\ Len(Calls) >= 1 => IsList(Calls[1])
    /\ \A i \in 2..Len(Calls) : ~IsList(Calls[i])
    /\ Len(Creates) + Len(Deletes) <= 1
    /\ \A i \in 1..Len(Calls) :
           IsDescribe(Calls[i])
           => \E j \in 1..(i - 1) :
                  /\ IsCreate(Calls[j])
                  /\ Calls[j].code = "ok"
                  /\ Calls[j].State = "attaching"

\* A list call, a create answered attaching, then re-describe calls.
C18_Witness ==
    /\ pc = "done"
    /\ Len(Calls) = 4
    /\ IsList(Calls[1]) /\ IsCreate(Calls[2]) /\ Calls[2].State = "attaching"
    /\ IsDescribe(Calls[3]) /\ IsDescribe(Calls[4])

\* A list call, then the delete call and nothing else.
C18_WitnessDelete ==
    /\ pc = "done"
    /\ Len(Calls) = 2
    /\ IsList(Calls[1]) /\ IsDelete(Calls[2])

\* The gateways of a list attached to a parent other than the caller's.
OfOtherParent(list) ==
    { i \in 1..Len(list) : list[i].Attachments[1].VpcId # vpc_id }

\* C19: a delete call names the identifier the lookup returned, which is the
\* identifier of a gateway in the provider's list whose first attachment has
\* the caller's vpc_id and state attached or attaching; every listed gateway
\* attached to another parent is still in the provider when the run ends.
C19_DeleteTarget ==
    /\ \A i \in 1..Len(Deletes) :
           /\ Deletes[i].EgressOnlyInternetGatewayId = eigw_id
           /\ \E k \in 1..Len(listed) :
                  /\ listed[k].EgressOnlyInternetGatewayId
                         = Deletes[i].EgressOnlyInternetGatewayId
                  /\ listed[k].Attachments[1].VpcId = vpc_id
                  /\ listed[k].Attachments[1].State \in {"attached", "attaching"}
    /\ \A k \in OfOtherParent(listed) :
           \E j \in 1..Len(gateways) : gateways[j] = listed[k]

\* The caller's gateway is deleted, the one of another parent is left alone.
C19_Witness ==
    /\ pc = "done" /\ exit = "exit_json"
    /\ Len(Deletes) = 1 /\ Deletes[1].code = "ok" /\ Deletes[1].ReturnCode
    /\ Len(listed) = 2 /\ Len(gateways) = 1
    /\ OfOtherParent(listed) = {2}
    /\ gateways[1] = listed[2]

(***************************************************************************)
(* Validation comes before the invocation.                                 *)
(***************************************************************************)
\* The four checks of validation, on the parameters the host handed over.
ServiceChecked == service \in AvailableServices
OperationChecked == operation_name \in OperationNames(service)
KeysChecked == Undeclared(WithoutUndeclaredDryRun(ValidateInput)) = {}
RequiredChecked == Absent(WithoutUndeclaredDryRun(ValidateInput)) = {}

AllChecked ==
    /\ ServiceChecked
    /\ OperationChecked
    /\ KeysChecked
    /\ RequiredChecked

\* C20: a run invokes at most one SDK operation, and only with a known
\* service, a known operation name, no undeclared key and every required
\* key; when one of the four checks fails the run has halted with a failure
\* once validation is over, and no operation was invoked.
C20_ValidateBeforeInvoke ==
    /\ Len(invoked) <= 1
    /\ \A i \in 1..Len(invoked) :
           /\ Validated
           /\ AllChecked
           /\ invoked[i].args = args
           /\ DOMAIN invoked[i].args \subseteq ShapeMembers(operation_name)
           /\ RequiredMembers(operation_name) \subseteq DOMAIN invoked[i].args
    /\ (Validated /\ ~AllChecked)
       => /\ ipc = "done"
          /\ iexit = "fail_json"
          /\ invoked = << >>

\* An operation invoked after all four checks passed.
C20_Witness ==
    /\ ipc = "done" /\ iexit = "exit_json"
    /\ Len(invoked) = 1 /\ invoked[1].method = op_delete_vpc
    /\ AllChecked

\* A run halted by each of the four checks, nothing invoked.
C20_WitnessService ==
    ipc = "done" /\ ~ServiceChecked /\ RejectedAs("Invalid Service Name")
C20_WitnessOperation ==
    ipc = "done" /\ ServiceChecked /\ ~OperationChecked
                 /\ RejectedAs("Invalid Operation Name")
C20_WitnessKeys ==
    ipc = "done" /\ OperationChecked /\ ~KeysChecked
                 /\ RejectedAs("Invalid Argument(s)")
C20_WitnessRequired ==
    ipc = "done" /\ OperationChecked /\ KeysChecked /\ ~RequiredChecked
                 /\ RejectedAs("Missing Required Argument(s)")

=============================================================================
